---------------------------- MODULE Spec2Model ----------------------------
(***************************************************************************)
(* Tax calculation engine and Year View tax-building allocation of the     *)
(* retirement simulator (src/app.py).                                      *)
(*                                                                         *)
(* Money is modelled in whole dollars (exact integer arithmetic); a rate   *)
(* is modelled in units of 1/10000 (0.2005 is 2005), so a tax amount is in *)
(* units of 1/10000 dollar.  All rates of TAX_BRACKETS have four decimals, *)
(* so the scaling loses nothing.                                           *)
(***************************************************************************)
EXTENDS Integers, Sequences, FiniteSets

VARIABLES
    total_gross_income,        \* t4_gross_income + other_income
    total_rrsp_contributions,  \* the shield: periodic + lump-sum RRSP
    pc,                        \* "input", "year_view", or the function applied
    taxable_income,            \* Year View: max(0, gross - contributions)
    estimated_refund,          \* Year View: calculate_tax_refund(...)
    marginal_rate,             \* Year View: get_marginal_rate(gross)
    allocated,                 \* locals of every loop pass that got past `continue`
    building_data,             \* rows appended by the tax-building loop
    result,                    \* value returned by a direct function call
    raised,                    \* exception propagated to the caller, "none" if it returned
    brackets,                  \* the value the module global TAX_BRACKETS holds
    history,                   \* content of retirement_history.json: year -> saved record
    calls,                     \* per thread: the engine call it is executing and its locals
    sessions                   \* per session: the persistence call it is executing and its locals

vars == << total_gross_income, total_rrsp_contributions, pc, taxable_income,
           estimated_refund, marginal_rate, allocated, building_data,
           result, raised, brackets, history, calls, sessions >>

--------------------------------------------------------------------------
(* Bounds of the input space *)

Delta == 1          \* inputs at distance <= Delta around every bracket boundary
GridStep == 30000   \* plus a regular grid of incomes
GridMax == 8        \* ... of GridMax steps
NThreads == 2       \* threads running engine calls concurrently
NYears == 2         \* planning years that can be saved

--------------------------------------------------------------------------
(* Program constants *)

Inf == 2147483647   \* float('inf'): above every amount of the model

\* the table with two rows entered in the wrong order
TAX_BRACKETS_unsorted ==
    << [name |-> "Floor 2",   low |-> 53891,  high |-> 58523,  rate |-> 2415],
       [name |-> "Floor 1",   low |-> 0,      high |-> 53891,  rate |-> 2005],
       [name |-> "Floor 3",   low |-> 58523,  high |-> 94907,  rate |-> 2965],
       [name |-> "Floor 4",   low |-> 94907,  high |-> 117045, rate |-> 3148],
       [name |-> "Floor 5",   low |-> 117045, high |-> 181440, rate |-> 3389],
       [name |-> "Penthouse", low |-> 181440, high |-> Inf,    rate |-> 4797] >>

\* the table with two digits of one bound transposed (58523 typed 58532)
TAX_BRACKETS_gap ==
    << [name |-> "Floor 1",   low |-> 0,      high |-> 53891,  rate |-> 2005],
       [name |-> "Floor 2",   low |-> 53891,  high |-> 58523,  rate |-> 2415],
       [name |-> "Floor 3",   low |-> 58532,  high |-> 94907,  rate |-> 2965],
       [name |-> "Floor 4",   low |-> 94907,  high |-> 117045, rate |-> 3148],
       [name |-> "Floor 5",   low |-> 117045, high |-> 181440, rate |-> 3389],
       [name |-> "Penthouse", low |-> 181440, high |-> Inf,    rate |-> 4797] >>

TAX_BRACKETS ==
    << [name |-> "Floor 1",   low |-> 0,      high |-> 53891,  rate |-> 2005],
       [name |-> "Floor 2",   low |-> 53891,  high |-> 58523,  rate |-> 2415],
       [name |-> "Floor 3",   low |-> 58523,  high |-> 94907,  rate |-> 2965],
       [name |-> "Floor 4",   low |-> 94907,  high |-> 117045, rate |-> 3148],
       [name |-> "Floor 5",   low |-> 117045, high |-> 181440, rate |-> 3389],
       [name |-> "Penthouse", low |-> 181440, high |-> Inf,    rate |-> 4797] >>

NBrackets == Len(TAX_BRACKETS)

min(a, b) == IF a <= b THEN a ELSE b

max(a, b) == IF a >= b THEN a ELSE b

--------------------------------------------------------------------------
(* Inputs *)

Boundaries == {TAX_BRACKETS[i].low : i \in 1..NBrackets}

NearBoundaries == {b + d : b \in Boundaries, d \in (0 - Delta)..Delta}

Grid == {k * GridStep : k \in 0..GridMax}

\* the income and the shield of the worked example
ExampleAmounts == {120000, 30000}

\* Amounts the sidebar widgets can deliver (number_input with min_value=0.0)
Amounts == {a \in NearBoundaries \cup Grid \cup ExampleAmounts : a >= 0}

\* Amounts a direct caller of the engine functions can pass: a record read
\* from the history file is not validated
RawAmounts == Amounts \cup {0 - Delta, 0 - GridStep}

--------------------------------------------------------------------------
(* Tax calculation engine *)

\* taxable_in_bracket = min(income, bracket['high']) - bracket['low']
taxable_in_bracket(income, bracket) == min(income, bracket.high) - bracket.low

\* the loop of calculate_tax_on_income from the i-th bracket on, over the
\* table the global TAX_BRACKETS is bound to:
\* for bracket in table[i..]: if income > low: total_tax += ...
RECURSIVE tax_loop_on(_, _, _, _)
tax_loop_on(table, i, income, total_tax) ==
    IF i > Len(table) THEN total_tax
    ELSE IF income > table[i].low
         THEN tax_loop_on(table, i + 1, income,
                          total_tax + taxable_in_bracket(income, table[i])
                                      * table[i].rate)
         ELSE tax_loop_on(table, i + 1, income, total_tax)

\* calculate_tax_on_income over the table the global is bound to
calculate_tax_on_income_on(table, income) ==
    IF income <= 0 THEN 0 ELSE tax_loop_on(table, 1, income, 0)

tax_loop(i, income, total_tax) == tax_loop_on(TAX_BRACKETS, i, income, total_tax)

\* the tax computed at one flat rate, the rate of the bracket holding the income
calculate_tax_on_income_flat(income) ==
    IF income <= 0 THEN 0
    ELSE LET hit == {i \in 1..NBrackets : TAX_BRACKETS[i].low < income}
         IN  income * TAX_BRACKETS[CHOOSE i \in hit : \A j \in hit : j <= i].rate

calculate_tax_on_income(income) ==
    calculate_tax_on_income_on(TAX_BRACKETS, income)

\* the refund estimated as contribution times the marginal rate of the gross
\* income, without walking the brackets
calculate_tax_refund_flat(gross_income, rrsp_contributions) ==
    IF gross_income <= 0 THEN 0
    ELSE LET hit == {i \in 1..NBrackets : TAX_BRACKETS[i].low <= gross_income}
         IN  max(0, rrsp_contributions
                    * TAX_BRACKETS[CHOOSE i \in hit : \A j \in hit : j <= i].rate)

calculate_tax_refund(gross_income, rrsp_contributions) ==
    IF gross_income <= 0 THEN 0
    ELSE LET tax_without_rrsp == calculate_tax_on_income(gross_income)
             tax_with_rrsp == calculate_tax_on_income(gross_income - rrsp_contributions)
             refund == tax_without_rrsp - tax_with_rrsp
         IN  max(0, refund)

\* for bracket in TAX_BRACKETS[i..]: if low <= income < high: return rate
RECURSIVE marginal_loop(_, _)
marginal_loop(i, income) ==
    IF i > NBrackets THEN TAX_BRACKETS[NBrackets].rate
    ELSE IF TAX_BRACKETS[i].low <= income /\ income < TAX_BRACKETS[i].high
         THEN TAX_BRACKETS[i].rate
         ELSE marginal_loop(i + 1, income)

\* get_marginal_rate with the test written low < income <= high
get_marginal_rate_upper(income) ==
    IF income <= 0 THEN 0
    ELSE LET hit == {i \in 1..NBrackets :
                        TAX_BRACKETS[i].low < income /\ income <= TAX_BRACKETS[i].high}
         IN  IF hit = {} THEN TAX_BRACKETS[NBrackets].rate
             ELSE TAX_BRACKETS[CHOOSE i \in hit : \A j \in hit : i <= j].rate

\* get_marginal_rate without its `income <= 0` guard
get_marginal_rate_noguard(income) == marginal_loop(1, income)

get_marginal_rate(income) ==
    IF income <= 0 THEN 0 ELSE marginal_loop(1, income)

--------------------------------------------------------------------------
(* Year View: taxable income and the tax-building allocation loop *)

\* taxable income with the operands of the subtraction swapped
TaxableIncomeSwapped(gross, rrsp) == max(0, rrsp - gross)

\* taxable income without the clamp at zero
TaxableIncomeNoClamp(gross, rrsp) == gross - rrsp

\* taxable_income = max(0, total_gross_income - total_rrsp_contributions)
TaxableIncome(gross, rrsp) == max(0, gross - rrsp)

\* total_in_bracket computed without the cap at the bracket's high bound
total_in_bracket_nocap(gross, bracket) == gross - bracket.low

total_in_bracket(gross, bracket) == min(gross, bracket.high) - bracket.low

\* taxed_amt without the clamp at zero
taxed_amt_noclamp(taxable, bracket) == min(bracket.high, taxable) - bracket.low

\* taxed_amt without the cap at the bracket's high bound
taxed_amt_nocap(taxable, bracket) == max(0, taxable - bracket.low)

taxed_amt(taxable, bracket) == max(0, min(bracket.high, taxable) - bracket.low)

\* shielded_amt that ignores what was taxed
shielded_amt_all(total, taxed) == total

shielded_amt(total, taxed) == total - taxed

\* f"{bracket['rate']*100:.2f}%": a rate of four decimals printed as a
\* percentage of two decimals, kept as the pair (integer part, hundredths)
RateLabel(rate) == << rate \div 100, rate % 100 >>

\* the rows one loop pass appends to building_data
rows_of(bracket, shielded, taxed) ==
    (IF shielded > 0
     THEN << [Floor |-> bracket.name, Amount |-> shielded,
              Status |-> "Tax-Shielded", Rate |-> RateLabel(bracket.rate)] >>
     ELSE << >>)
    \o
    (IF taxed > 0
     THEN << [Floor |-> bracket.name, Amount |-> taxed,
              Status |-> "Taxable", Rate |-> RateLabel(bracket.rate)] >>
     ELSE << >>)

\* for bracket in table[i..]: the loop over the table the global TAX_BRACKETS
\* is bound to, carrying building_data (rows) and the locals of every pass
\* that was not skipped (passes)
RECURSIVE building_loop_on(_, _, _, _, _, _)
building_loop_on(table, i, gross, taxable, passes, rows) ==
    IF i > Len(table) THEN [allocated |-> passes, building_data |-> rows]
    ELSE LET bracket == table[i]
             total == total_in_bracket(gross, bracket)
         IN  IF total <= 0
             THEN building_loop_on(table, i + 1, gross, taxable, passes, rows)
             ELSE LET taxed == taxed_amt(taxable, bracket)
                      shielded == shielded_amt(total, taxed)
                  IN  building_loop_on(table, i + 1, gross, taxable,
                          Append(passes, [index |-> i,
                                          name |-> bracket.name,
                                          rate |-> bracket.rate,
                                          total_in_bracket |-> total,
                                          taxed_amt |-> taxed,
                                          shielded_amt |-> shielded]),
                          rows \o rows_of(bracket, shielded, taxed))

building_loop(i, gross, taxable, passes, rows) ==
    building_loop_on(TAX_BRACKETS, i, gross, taxable, passes, rows)

--------------------------------------------------------------------------
(* Year View: optimization status banner *)

penthouse_threshold == 181440

\* is_optimized = taxable_income < penthouse_threshold
is_optimized(taxable) == taxable < penthouse_threshold

\* deficit = taxable_income - penthouse_threshold; additional_rrsp_needed = deficit
additional_rrsp_needed(taxable) == taxable - penthouse_threshold

--------------------------------------------------------------------------
(* Year View: strategic prioritization and insights *)

\* penthouse_income = max(0, taxable_income - penthouse_threshold)
penthouse_income(taxable) == max(0, taxable - penthouse_threshold)

\* penthouse_shield_needed =
\*     max(0, total_gross_income - penthouse_threshold - total_rrsp_contributions)
penthouse_shield_needed(gross, rrsp) == max(0, gross - penthouse_threshold - rrsp)

\* remaining_rrsp_room = max(0, rrsp_room - total_rrsp_contributions)
remaining_rrsp_room(rrsp_room, rrsp) == max(0, rrsp_room - rrsp)

\* Insight 2 is appended when remaining_rrsp_room > 10000
unused_room_insight_shown(rrsp_room, rrsp) ==
    remaining_rrsp_room(rrsp_room, rrsp) > 10000

\* the refund the insight promises for an additional $10,000:
\* 10000 * marginal_rate
insight_refund_per_10000(rate) == 10000 * rate

--------------------------------------------------------------------------
(* Construction of the bracket table *)

\* TAX_BRACKETS = [ {...}, ... ]: the list display evaluates to the rows as
\* written; no statement inspects them, so the assignment never raises
build(rows) == [table |-> rows, raised |-> "none"]

--------------------------------------------------------------------------
(* Other places that derive taxable income *)

\* the income taxed for tax_with_rrsp inside calculate_tax_refund
tax_with_rrsp_income(gross_income, rrsp_contributions) ==
    gross_income - rrsp_contributions

\* taxable_income of is_year_optimized
year_taxable_income(total_gross, total_rrsp) == max(0, total_gross - total_rrsp)

\* the row the Home page appends to chart_data for one saved year
chart_row(gross, annual_rrsp) ==
    [Gross_Income |-> gross,
     Taxable_Income |-> gross - annual_rrsp,
     Tax_Shield |-> annual_rrsp,
     RRSP |-> annual_rrsp]

--------------------------------------------------------------------------
(* Persistence engine; the file is abstracted to the dict it holds *)

FirstYear == 2020

\* the years the planning grid can open (new_year_input has min_value=2020)
Years == FirstYear..(FirstYear + NYears - 1)

\* SAVE_FILE absent or holding {}: load_all_data() returns {}
EmptyFile == [y \in {} |-> 0]

\* SAVE_FILE after open(SAVE_FILE, "w") and before json.dump has completed:
\* not a JSON document, so json.load raises and load_all_data() returns {},
\* as it does for an absent file
TruncatedFile == EmptyFile

\* how `with open(SAVE_FILE, "w") as f: json.dump(all_data, f, indent=2)` can
\* end: completed, open() raised (the file is untouched), json.dump raised
\* (the file was truncated by open())
WriteOutcomes == {"ok", "open_failed", "dump_failed"}

\* load_all_data(): the dict in SAVE_FILE; {} when the read raises
load_all_data(file, read_ok) == IF read_ok THEN file ELSE EmptyFile

\* the file after the `with open(SAVE_FILE, "w")` block
write_file(file, all_data, write) ==
    CASE write = "ok" -> all_data
      [] write = "open_failed" -> file
      [] write = "dump_failed" -> TruncatedFile

\* save_year_data(year, data): all_data[str(year)] = data, then the dump;
\* loaded is what load_all_data() returned
save_year_data(file, year, data, read_ok, write) ==
    LET loaded == load_all_data(file, read_ok)
        all_data == [y \in DOMAIN loaded \cup {year} |->
                        IF y = year THEN data ELSE loaded[y]]
    IN  [file |-> write_file(file, all_data, write),
         ret |-> (write = "ok"),
         loaded |-> loaded,
         all_data |-> all_data]

\* delete_year_data without the `if str(year) in all_data` test:
\* all_data.pop(str(year), None), the dump, return True
delete_year_data_unguarded(file, year, read_ok, write) ==
    LET loaded == load_all_data(file, read_ok)
        all_data == [y \in DOMAIN loaded \ {year} |-> loaded[y]]
    IN  [file |-> write_file(file, all_data, write),
         ret |-> (write = "ok"),
         loaded |-> loaded,
         all_data |-> all_data]

\* delete_year_data(year): del all_data[str(year)] and the dump, when present
delete_year_data(file, year, read_ok, write) ==
    LET loaded == load_all_data(file, read_ok)
        all_data == [y \in DOMAIN loaded \ {year} |-> loaded[y]]
    IN  IF year \in DOMAIN loaded
        THEN [file |-> write_file(file, all_data, write),
              ret |-> (write = "ok"),
              loaded |-> loaded,
              all_data |-> all_data]
        ELSE [file |-> file, ret |-> FALSE, loaded |-> loaded,
              all_data |-> loaded]

\* the dict the Save button passes to save_year_data, for a year whose gross
\* income is all T4 income and whose RRSP total is all optimization lump sum
\* (the fields that do not enter the tax computation are left out)
form_record(gross, rrsp) ==
    [t4_gross_income |-> gross,
     other_income |-> 0,
     base_salary |-> 0,
     biweekly_pct |-> 0,
     employer_match |-> 0,
     rrsp_lump_sum_optimization |-> rrsp,
     rrsp_lump_sum_additional |-> 0]

--------------------------------------------------------------------------
(* Saved records: a record of the history file is a dict; percentages are
   kept in units of 0.5, the step of the two sliders, so x / 100 of an
   amount is amount * x / 200 *)

\* data.get(key, default)
get(data, key, default) == IF key \in DOMAIN data THEN data[key] ELSE default

\* calculate_annual_rrsp(data)
calculate_annual_rrsp(data) ==
    LET base_salary == get(data, "base_salary", 0)
        biweekly_pct == get(data, "biweekly_pct", 0)
        employer_match_cap == get(data, "employer_match", 0)
        employee_contrib == (base_salary * biweekly_pct) \div 200
        employer_contrib ==
            (base_salary * min(biweekly_pct, employer_match_cap)) \div 200
        periodic_rrsp == employee_contrib + employer_contrib
        lump_sum == get(data, "rrsp_lump_sum_optimization", 0)
                    + get(data, "rrsp_lump_sum_additional", 0)
                    + get(data, "rrsp_lump_sum", 0)
    IN  periodic_rrsp + lump_sum

\* is_year_optimized(year_data)
is_year_optimized(year_data) ==
    IF DOMAIN year_data = {} THEN FALSE
    ELSE LET t4_gross == get(year_data, "t4_gross_income", 0)
             other_inc == get(year_data, "other_income", 0)
             total_gross == t4_gross + other_inc
             total_rrsp == calculate_annual_rrsp(year_data)
         IN  year_taxable_income(total_gross, total_rrsp) < penthouse_threshold

\* annual_rrsp of one pass of the Global Wealth Summary loop
home_annual_rrsp(data) ==
    (get(data, "base_salary", 0)
        * (get(data, "biweekly_pct", 0) + get(data, "employer_match", 0))) \div 200
    + get(data, "rrsp_lump_sum_optimization", 0)
    + get(data, "rrsp_lump_sum_additional", 0)
    + get(data, "rrsp_lump_sum", 0)

\* total_rrsp_all after the Global Wealth Summary loop over all_history.items()
RECURSIVE home_total_rrsp_all(_, _)
home_total_rrsp_all(all_history, years) ==
    IF years = {} THEN 0
    ELSE LET yr == CHOOSE y \in years : TRUE
         IN  home_annual_rrsp(all_history[yr])
             + home_total_rrsp_all(all_history, years \ {yr})

\* latest_year = max(all_history.keys(), key=lambda x: int(x))
latest_year(all_history) ==
    CHOOSE y \in DOMAIN all_history : \A z \in DOMAIN all_history : z <= y

\* annual_rrsp of the latest year, for the projected balances
latest_annual_rrsp(latest_data) ==
    (get(latest_data, "base_salary", 0)
        * (get(latest_data, "biweekly_pct", 0)
           + get(latest_data, "employer_match", 0))) \div 200
    + get(latest_data, "rrsp_lump_sum_optimization", 0)
    + get(latest_data, "rrsp_lump_sum_additional", 0)
    + get(latest_data, "rrsp_lump_sum", 0)

\* the status of a tile of the Planning Years grid
grid_tile(all_history, yr) ==
    LET is_saved == yr \in DOMAIN all_history
        is_opt == IF is_saved THEN is_year_optimized(all_history[yr]) ELSE FALSE
    IN  IF ~is_saved THEN "Empty"
        ELSE IF is_opt THEN "Optimized"
        ELSE "In Progress"

\* Year View opened on year_data: total_gross_income from the t4_gross_income
\* widget (initial value from the record) and the record's other_income
year_view_total_gross(year_data) ==
    get(year_data, "t4_gross_income", 0) + get(year_data, "other_income", 0)

\* Year View opened on year_data: total_rrsp_contributions from the widgets'
\* initial values; the employer_match_cap slider defaults to 4.0
year_view_total_rrsp(year_data) ==
    LET base_salary == get(year_data, "base_salary", 0)
        biweekly_pct == get(year_data, "biweekly_pct", 0)
        employer_match_cap == get(year_data, "employer_match", 8)
        rrsp_lump_sum_optimization == get(year_data, "rrsp_lump_sum_optimization", 0)
        rrsp_lump_sum_additional == get(year_data, "rrsp_lump_sum_additional", 0)
        employee_rrsp_contribution == (base_salary * biweekly_pct) \div 200
        employer_rrsp_contribution ==
            (base_salary * min(biweekly_pct, employer_match_cap)) \div 200
        annual_rrsp_periodic ==
            employee_rrsp_contribution + employer_rrsp_contribution
        rrsp_lump_sum == rrsp_lump_sum_optimization + rrsp_lump_sum_additional
    IN  annual_rrsp_periodic + rrsp_lump_sum

--------------------------------------------------------------------------
(* State machine *)

NoResult == [fn |-> "none", value |-> 0]

\* the threads (sessions) that may run engine calls at the same time
Threads == 1..NThreads

\* a thread that is not inside an engine call
IdleCall == [pc |-> "idle", fn |-> "none", income |-> 0, i |-> 0,
             total_tax |-> 0, value |-> 0]

\* a session that is not inside save_year_data or delete_year_data
IdleSession == [pc |-> "idle", fn |-> "none", year |-> 0, data |-> EmptyFile,
                loaded |-> EmptyFile, all_data |-> EmptyFile,
                write |-> "none", ret |-> FALSE]

\* the locals of a persistence call r of session state pc
session_call(fn, year, data, r, write, state) ==
    [pc |-> state, fn |-> fn, year |-> year, data |-> data,
     loaded |-> r.loaded, all_data |-> r.all_data, write |-> write,
     ret |-> r.ret]

Init ==
    /\ total_gross_income \in RawAmounts
    /\ total_rrsp_contributions \in RawAmounts
    /\ pc = "input"
    /\ taxable_income = 0
    /\ estimated_refund = 0
    /\ marginal_rate = 0
    /\ allocated = << >>
    /\ building_data = << >>
    /\ result = NoResult
    /\ raised = "none"
    /\ brackets = TAX_BRACKETS
    /\ history = EmptyFile
    /\ calls = [t \in Threads |-> IdleCall]
    /\ sessions = [t \in Threads |-> IdleSession]

\* The Year View script run: the sidebar widgets only deliver amounts >= 0
YearView ==
    /\ pc = "input"
    /\ total_gross_income >= 0
    /\ total_rrsp_contributions >= 0
    /\ LET t == TaxableIncome(total_gross_income, total_rrsp_contributions)
           b == building_loop(1, total_gross_income, t, << >>, << >>)
       IN  /\ taxable_income' = t
           /\ estimated_refund' =
                 calculate_tax_refund(total_gross_income, total_rrsp_contributions)
           /\ marginal_rate' = get_marginal_rate(total_gross_income)
           /\ allocated' = b.allocated
           /\ building_data' = b.building_data
    /\ pc' = "year_view"
    /\ UNCHANGED << total_gross_income, total_rrsp_contributions, result, raised,
                    brackets, history, calls, sessions >>

\* calculate_tax_on_income that clips the rows of the shared table in place
\* (bracket['high'] = min(income, bracket['high'])) while it adds up the tax
CallTaxOnIncome_clipping ==
    /\ pc = "input"
    /\ result' = [fn |-> "calculate_tax_on_income",
                  value |-> calculate_tax_on_income(
                                total_gross_income - total_rrsp_contributions)]
    /\ brackets' = [i \in DOMAIN brackets |->
                      [brackets[i] EXCEPT
                          !.high = min(total_gross_income - total_rrsp_contributions, @)]]
    /\ pc' = "called"
    /\ UNCHANGED << total_gross_income, total_rrsp_contributions, taxable_income,
                    estimated_refund, marginal_rate, allocated, building_data,
                    raised, history, calls, sessions >>

\* A direct call calculate_tax_on_income(income): none of the functions has a
\* raise statement, so the call returns
CallTaxOnIncome ==
    /\ pc = "input"
    /\ result' = [fn |-> "calculate_tax_on_income",
                  value |-> calculate_tax_on_income(
                                total_gross_income - total_rrsp_contributions)]
    /\ pc' = "called"
    /\ UNCHANGED << total_gross_income, total_rrsp_contributions, taxable_income,
                    estimated_refund, marginal_rate, allocated, building_data,
                    raised, brackets, history, calls, sessions >>

\* A direct call calculate_tax_refund(total_gross, annual_rrsp), as the Global
\* Wealth Summary makes for a record of the history file
CallTaxRefund ==
    /\ pc = "input"
    /\ result' = [fn |-> "calculate_tax_refund",
                  value |-> calculate_tax_refund(total_gross_income,
                                                 total_rrsp_contributions)]
    /\ pc' = "called"
    /\ UNCHANGED << total_gross_income, total_rrsp_contributions, taxable_income,
                    estimated_refund, marginal_rate, allocated, building_data,
                    raised, brackets, history, calls, sessions >>

\* A direct call get_marginal_rate(income)
CallMarginalRate ==
    /\ pc = "input"
    /\ result' = [fn |-> "get_marginal_rate",
                  value |-> get_marginal_rate(total_gross_income)]
    /\ pc' = "called"
    /\ UNCHANGED << total_gross_income, total_rrsp_contributions, taxable_income,
                    estimated_refund, marginal_rate, allocated, building_data,
                    raised, brackets, history, calls, sessions >>

\* One pass of the Home page loop that builds chart_data for the multi-year
\* chart, for a saved record with this gross income and annual RRSP total;
\* result.value is the row's "Taxable Income"
ChartRow ==
    /\ pc = "input"
    /\ result' = [fn |-> "chart_data",
                  value |-> chart_row(total_gross_income,
                                      total_rrsp_contributions).Taxable_Income]
    /\ pc' = "chart"
    /\ UNCHANGED << total_gross_income, total_rrsp_contributions, taxable_income,
                    estimated_refund, marginal_rate, allocated, building_data,
                    raised, brackets, history, calls, sessions >>

\* The next run: new inputs, every derived value recomputed from scratch
NewInput ==
    /\ pc # "input"
    /\ \E g \in RawAmounts, c \in RawAmounts :
          /\ total_gross_income' = g
          /\ total_rrsp_contributions' = c
    /\ pc' = "input"
    /\ taxable_income' = 0
    /\ estimated_refund' = 0
    /\ marginal_rate' = 0
    /\ allocated' = << >>
    /\ building_data' = << >>
    /\ result' = NoResult
    /\ raised' = "none"
    /\ UNCHANGED << brackets, history, calls, sessions >>

Next ==
    \/ YearView
    \/ CallTaxOnIncome
    \/ CallTaxRefund
    \/ CallMarginalRate
    \/ ChartRow
    \/ NewInput

Spec == Init /\ [][Next]_vars

--------------------------------------------------------------------------
(* State machine with the history file: saving and resetting years between
   engine calls, over a small set of amounts *)

StoreAmounts == {0, GridStep, GridMax * GridStep}

InitStore ==
    /\ total_gross_income \in StoreAmounts
    /\ total_rrsp_contributions \in StoreAmounts
    /\ pc = "input"
    /\ taxable_income = 0
    /\ estimated_refund = 0
    /\ marginal_rate = 0
    /\ allocated = << >>
    /\ building_data = << >>
    /\ result = NoResult
    /\ raised = "none"
    /\ brackets = TAX_BRACKETS
    /\ history = EmptyFile
    /\ calls = [t \in Threads |-> IdleCall]
    /\ sessions = [t \in Threads |-> IdleSession]

\* The Save button of the sidebar form: save_year_data(selected_year, {...})
SaveYear ==
    /\ pc = "input"
    /\ \E selected_year \in Years, read_ok \in BOOLEAN, write \in WriteOutcomes :
          LET data == form_record(total_gross_income, total_rrsp_contributions)
              r == save_year_data(history, selected_year, data, read_ok, write)
          IN  /\ history' = r.file
              /\ sessions' = [sessions EXCEPT ![1] =
                                 session_call("save_year_data", selected_year,
                                              data, r, write, "done")]
    /\ pc' = "saved"
    /\ UNCHANGED << total_gross_income, total_rrsp_contributions, taxable_income,
                    estimated_refund, marginal_rate, allocated, building_data,
                    result, raised, brackets, calls >>

\* The Reset button of the sidebar form: delete_year_data(selected_year)
ResetYear ==
    /\ pc = "input"
    /\ \E selected_year \in Years, read_ok \in BOOLEAN, write \in WriteOutcomes :
          LET r == delete_year_data(history, selected_year, read_ok, write)
          IN  /\ history' = r.file
              /\ sessions' = [sessions EXCEPT ![1] =
                                 session_call("delete_year_data", selected_year,
                                              EmptyFile, r, write, "done")]
    /\ pc' = "reset"
    /\ UNCHANGED << total_gross_income, total_rrsp_contributions, taxable_income,
                    estimated_refund, marginal_rate, allocated, building_data,
                    result, raised, brackets, calls >>

\* st.rerun(): the script runs again with the widgets' values
Rerun ==
    /\ pc # "input"
    /\ \E g \in StoreAmounts, c \in StoreAmounts :
          /\ total_gross_income' = g
          /\ total_rrsp_contributions' = c
    /\ pc' = "input"
    /\ taxable_income' = 0
    /\ estimated_refund' = 0
    /\ marginal_rate' = 0
    /\ allocated' = << >>
    /\ building_data' = << >>
    /\ result' = NoResult
    /\ raised' = "none"
    /\ sessions' = [t \in Threads |-> IdleSession]
    /\ UNCHANGED << brackets, history, calls >>

NextStore ==
    \/ YearView
    \/ CallTaxOnIncome
    \/ CallTaxRefund
    \/ CallMarginalRate
    \/ ChartRow
    \/ SaveYear
    \/ ResetYear
    \/ Rerun

SpecStore == InitStore /\ [][NextStore]_vars

--------------------------------------------------------------------------
(* State machine of the Home page and the Year View opened from it, over
   history files that hold one saved year *)

\* a record written by an earlier version: the lump sum under 'rrsp_lump_sum'
with_legacy_key(data, lump) ==
    [key \in DOMAIN data \cup {"rrsp_lump_sum"} |->
        IF key = "rrsp_lump_sum" THEN lump ELSE data[key]]

\* records as the Save button writes them (biweekly_pct 0, 2.0, 6.0 and
\* employer_match 0, 4.0 in units of 0.5)
FormRecords ==
    {[t4_gross_income |-> g, other_income |-> o, base_salary |-> b,
      biweekly_pct |-> p, employer_match |-> m,
      rrsp_lump_sum_optimization |-> l, rrsp_lump_sum_additional |-> 0] :
        g \in {150000, 200000}, o \in {0, 20000}, b \in {0, 100000},
        p \in {0, 4, 12}, m \in {0, 8}, l \in {0, 25000}}

HomeRecords ==
    FormRecords \cup {with_legacy_key(r, 25000) : r \in FormRecords}

InitHome ==
    /\ total_gross_income = 0
    /\ total_rrsp_contributions = 0
    /\ pc = "start"
    /\ taxable_income = 0
    /\ estimated_refund = 0
    /\ marginal_rate = 0
    /\ allocated = << >>
    /\ building_data = << >>
    /\ result = NoResult
    /\ raised = "none"
    /\ brackets = TAX_BRACKETS
    /\ history \in {[y \in {FirstYear} |-> r] : r \in HomeRecords}
    /\ calls = [t \in Threads |-> IdleCall]
    /\ sessions = [t \in Threads |-> IdleSession]

\* The Home page script run on a non-empty history file: the Global Wealth
\* Summary loop, the latest year's projection and the Planning Years grid
HomePage ==
    /\ pc = "start"
    /\ DOMAIN history # {}
    /\ result' = [fn |-> "home",
                  value |-> 0,
                  total_rrsp_all |-> home_total_rrsp_all(history, DOMAIN history),
                  latest_annual_rrsp |->
                      latest_annual_rrsp(history[latest_year(history)]),
                  tiles |-> [yr \in DOMAIN history |-> grid_tile(history, yr)]]
    /\ pc' = "home"
    /\ UNCHANGED << total_gross_income, total_rrsp_contributions, taxable_income,
                    estimated_refund, marginal_rate, allocated, building_data,
                    raised, brackets, history, calls, sessions >>

\* A tile of a saved year is clicked: the Year View script starts and its
\* widgets take their values from the year's record
OpenYear ==
    /\ pc = "home"
    /\ \E selected_year \in DOMAIN history :
          LET year_data == history[selected_year]
          IN  /\ total_gross_income' = year_view_total_gross(year_data)
              /\ total_rrsp_contributions' = year_view_total_rrsp(year_data)
    /\ pc' = "input"
    /\ UNCHANGED << taxable_income, estimated_refund, marginal_rate, allocated,
                    building_data, result, raised, brackets, history, calls,
                    sessions >>

\* The Home button of the Year View
BackHome ==
    /\ pc = "year_view"
    /\ pc' = "start"
    /\ total_gross_income' = 0
    /\ total_rrsp_contributions' = 0
    /\ taxable_income' = 0
    /\ estimated_refund' = 0
    /\ marginal_rate' = 0
    /\ allocated' = << >>
    /\ building_data' = << >>
    /\ result' = NoResult
    /\ UNCHANGED << raised, brackets, history, calls, sessions >>

NextHome ==
    \/ HomePage
    \/ OpenYear
    \/ YearView
    \/ BackHome

SpecHome == InitHome /\ [][NextHome]_vars

--------------------------------------------------------------------------
(* Two sessions inside save_year_data / delete_year_data at the same time,
   one file operation per step.  The reads and writes themselves succeed
   here; failing ones are part of SaveYear and ResetYear. *)

PersistenceFunctions == {"save_year_data", "delete_year_data"}

\* the record a year of the file holds at the start, and the one the
\* sessions save
OldRecord == form_record(GridStep, 0)
NewRecord == form_record(GridMax * GridStep, GridStep)

InitRace ==
    /\ total_gross_income = 0
    /\ total_rrsp_contributions = 0
    /\ pc = "input"
    /\ taxable_income = 0
    /\ estimated_refund = 0
    /\ marginal_rate = 0
    /\ allocated = << >>
    /\ building_data = << >>
    /\ result = NoResult
    /\ raised = "none"
    /\ brackets = TAX_BRACKETS
    /\ history \in {[y \in saved |-> OldRecord] : saved \in SUBSET Years}
    /\ calls = [t \in Threads |-> IdleCall]
    /\ sessions = [t \in Threads |-> IdleSession]

\* Session t enters save_year_data or delete_year_data: load_all_data(),
\* then the change of the dict in memory; delete_year_data returns False at
\* once when the year is not in the dict
SessionLoad(t) ==
    /\ sessions[t].pc = "idle"
    /\ \E fn \in PersistenceFunctions, year \in Years :
          LET loaded == load_all_data(history, TRUE)
          IN  sessions' = [sessions EXCEPT ![t] =
                  IF fn = "save_year_data"
                  THEN [pc |-> "loaded", fn |-> fn, year |-> year,
                        data |-> NewRecord, loaded |-> loaded,
                        all_data |-> [y \in DOMAIN loaded \cup {year} |->
                                        IF y = year THEN NewRecord ELSE loaded[y]],
                        write |-> "none", ret |-> FALSE]
                  ELSE IF year \in DOMAIN loaded
                  THEN [pc |-> "loaded", fn |-> fn, year |-> year,
                        data |-> EmptyFile, loaded |-> loaded,
                        all_data |-> [y \in DOMAIN loaded \ {year} |-> loaded[y]],
                        write |-> "none", ret |-> FALSE]
                  ELSE [pc |-> "done", fn |-> fn, year |-> year,
                        data |-> EmptyFile, loaded |-> loaded,
                        all_data |-> loaded, write |-> "none", ret |-> FALSE]]
    /\ UNCHANGED << total_gross_income, total_rrsp_contributions, pc,
                    taxable_income, estimated_refund, marginal_rate, allocated,
                    building_data, result, raised, brackets, history, calls >>

\* open(SAVE_FILE, "w") in session t
SessionOpen(t) ==
    /\ sessions[t].pc = "loaded"
    /\ history' = TruncatedFile
    /\ sessions' = [sessions EXCEPT ![t].pc = "opened"]
    /\ UNCHANGED << total_gross_income, total_rrsp_contributions, pc,
                    taxable_income, estimated_refund, marginal_rate, allocated,
                    building_data, result, raised, brackets, calls >>

\* json.dump(all_data, f, indent=2), the close of the file and return True
SessionDump(t) ==
    /\ sessions[t].pc = "opened"
    /\ history' = sessions[t].all_data
    /\ sessions' = [sessions EXCEPT ![t].pc = "done", ![t].write = "ok",
                                    ![t].ret = TRUE]
    /\ UNCHANGED << total_gross_income, total_rrsp_contributions, pc,
                    taxable_income, estimated_refund, marginal_rate, allocated,
                    building_data, result, raised, brackets, calls >>

NextRace ==
    \E t \in Threads :
        \/ SessionLoad(t)
        \/ SessionOpen(t)
        \/ SessionDump(t)

SpecRace == InitRace /\ [][NextRace]_vars

--------------------------------------------------------------------------
(* Engine calls of several threads, one loop pass per step, sharing the
   bracket table.  calculate_tax_refund is two calls of
   calculate_tax_on_income and arithmetic on its own locals. *)

ConcIncomes == {0, TAX_BRACKETS[2].low, 4 * GridStep, GridMax * GridStep}

EngineFunctions == {"calculate_tax_on_income", "get_marginal_rate"}

InitConc ==
    /\ total_gross_income = 0
    /\ total_rrsp_contributions = 0
    /\ pc = "input"
    /\ taxable_income = 0
    /\ estimated_refund = 0
    /\ marginal_rate = 0
    /\ allocated = << >>
    /\ building_data = << >>
    /\ result = NoResult
    /\ raised = "none"
    /\ brackets = TAX_BRACKETS
    /\ history = EmptyFile
    /\ calls = [t \in Threads |-> IdleCall]
    /\ sessions = [t \in Threads |-> IdleSession]

\* an accumulator kept in one module-level variable instead of a local
total_tax_shared(t) == calls[1].total_tax

\* total_tax is a local of the call's own frame
total_tax_of(t) == calls[t].total_tax

\* Thread t enters an engine function: the `income <= 0` guard returns 0 at
\* once, otherwise the loop starts at the first bracket with total_tax = 0
ThreadCall(t) ==
    /\ calls[t].pc = "idle"
    /\ \E fn \in EngineFunctions, income \in ConcIncomes :
          calls' = [calls EXCEPT ![t] =
                       IF income <= 0
                       THEN [pc |-> "done", fn |-> fn, income |-> income,
                             i |-> 0, total_tax |-> 0, value |-> 0]
                       ELSE [pc |-> "loop", fn |-> fn, income |-> income,
                             i |-> 1, total_tax |-> 0, value |-> 0]]
    /\ UNCHANGED << total_gross_income, total_rrsp_contributions, pc,
                    taxable_income, estimated_refund, marginal_rate, allocated,
                    building_data, result, raised, brackets, history,
                    sessions >>

\* One pass of the loop of calculate_tax_on_income in thread t, or its
\* `return total_tax` after the last bracket
TaxStep(t) ==
    LET c == calls[t]
    IN  IF c.i > Len(brackets)
        THEN [c EXCEPT !.pc = "done", !.value = total_tax_of(t)]
        ELSE IF c.income > brackets[c.i].low
             THEN [c EXCEPT !.i = @ + 1,
                            !.total_tax = total_tax_of(t)
                                + taxable_in_bracket(c.income, brackets[c.i])
                                  * brackets[c.i].rate]
             ELSE [c EXCEPT !.i = @ + 1, !.total_tax = total_tax_of(t)]

\* One pass of the loop of get_marginal_rate in thread t, or its final
\* `return TAX_BRACKETS[-1]['rate']`
MarginalStep(t) ==
    LET c == calls[t]
    IN  IF c.i > Len(brackets)
        THEN [c EXCEPT !.pc = "done", !.value = brackets[Len(brackets)].rate]
        ELSE IF brackets[c.i].low <= c.income /\ c.income < brackets[c.i].high
             THEN [c EXCEPT !.pc = "done", !.value = brackets[c.i].rate]
             ELSE [c EXCEPT !.i = @ + 1]

ThreadStep(t) ==
    /\ calls[t].pc = "loop"
    /\ calls' = [calls EXCEPT ![t] =
                    IF calls[t].fn = "calculate_tax_on_income"
                    THEN TaxStep(t) ELSE MarginalStep(t)]
    /\ UNCHANGED << total_gross_income, total_rrsp_contributions, pc,
                    taxable_income, estimated_refund, marginal_rate, allocated,
                    building_data, result, raised, brackets, history,
                    sessions >>

\* The caller of thread t takes the returned value
ThreadReturn(t) ==
    /\ calls[t].pc = "done"
    /\ calls' = [calls EXCEPT ![t] = IdleCall]
    /\ UNCHANGED << total_gross_income, total_rrsp_contributions, pc,
                    taxable_income, estimated_refund, marginal_rate, allocated,
                    building_data, result, raised, brackets, history,
                    sessions >>

NextConc ==
    \E t \in Threads :
        \/ ThreadCall(t)
        \/ ThreadStep(t)
        \/ ThreadReturn(t)

SpecConc == InitConc /\ [][NextConc]_vars

--------------------------------------------------------------------------
(* Properties *)

RECURSIVE SumTotal(_)
SumTotal(passes) ==
    IF passes = << >> THEN 0
    ELSE Head(passes).total_in_bracket + SumTotal(Tail(passes))

RECURSIVE SumShielded(_)
SumShielded(passes) ==
    IF passes = << >> THEN 0
    ELSE Head(passes).shielded_amt + SumShielded(Tail(passes))

RECURSIVE SumTaxedTimesRate(_)
SumTaxedTimesRate(passes) ==
    IF passes = << >> THEN 0
    ELSE Head(passes).taxed_amt * Head(passes).rate + SumTaxedTimesRate(Tail(passes))

\* rate of the last pass with taxed_amt > 0, 0 when there is none
LastTaxedRate(passes) ==
    LET taxed == {k \in DOMAIN passes : passes[k].taxed_amt > 0}
    IN  IF taxed = {} THEN 0
        ELSE passes[CHOOSE k \in taxed : \A j \in taxed : j <= k].rate

\* the passes that are partially shielded
Partial(passes) ==
    {k \in DOMAIN passes : passes[k].shielded_amt > 0 /\ passes[k].taxed_amt > 0}

\* the allocation the Year View would produce for other inputs
AllocatedFor(gross, rrsp) ==
    building_loop(1, gross, TaxableIncome(gross, rrsp), << >>, << >>).allocated

\* C1: for gross income >= 0 and shield >= 0, every bracket processed by the
\* allocation loop has shieldedAmount + taxedAmount = totalAmountInBracket,
\* with shieldedAmount >= 0 and taxedAmount >= 0.
C1_Conservation ==
    pc = "year_view" =>
        \A k \in DOMAIN allocated :
            /\ allocated[k].shielded_amt + allocated[k].taxed_amt
                  = allocated[k].total_in_bracket
            /\ allocated[k].shielded_amt >= 0
            /\ allocated[k].taxed_amt >= 0

C1_Witness ==
    /\ pc = "year_view"
    /\ Len(allocated) >= 3
    /\ \E k \in DOMAIN allocated :
          allocated[k].shielded_amt > 0 /\ allocated[k].taxed_amt > 0
    /\ \E k \in DOMAIN allocated : allocated[k].taxed_amt = 0

\* C2: for gross income >= 0, the totalAmountInBracket of the emitted
\* brackets add up to the gross income.
C2_TotalsSumToGross ==
    pc = "year_view" => SumTotal(allocated) = total_gross_income

C2_Witness ==
    /\ pc = "year_view"
    /\ Len(allocated) = NBrackets
    /\ total_gross_income > TAX_BRACKETS[NBrackets].low + 1

\* C3: calculate_tax_on_income(taxable_income) is exactly the sum of
\* taxed_amt * rate over the brackets the allocation loop emitted for the
\* same gross income and shield.
C3_TaxIsSumOfTaxed ==
    pc = "year_view" =>
        calculate_tax_on_income(taxable_income) = SumTaxedTimesRate(allocated)

C3_Witness ==
    /\ pc = "year_view"
    /\ total_rrsp_contributions > 0
    /\ taxable_income > TAX_BRACKETS[2].high
    /\ Len(allocated) > 3
    /\ SumTaxedTimesRate(allocated) > 0

\* C4: top-down shielding.  An emitted bracket whose lower bound is at or
\* above taxable income is fully shielded, one whose upper bound is at or
\* below taxable income is fully taxed, and only a bracket with
\* low < taxable income < min(gross, high) has both a shielded and a taxed
\* part; so at most one bracket is partially shielded.
C4_TopDownShielding ==
    pc = "year_view" =>
        /\ \A k \in DOMAIN allocated :
              LET b == TAX_BRACKETS[allocated[k].index]
              IN  /\ b.low >= taxable_income => allocated[k].taxed_amt = 0
                  /\ b.high <= taxable_income => allocated[k].shielded_amt = 0
                  /\ (allocated[k].shielded_amt > 0 /\ allocated[k].taxed_amt > 0)
                        => /\ b.low < taxable_income
                           /\ taxable_income < min(total_gross_income, b.high)
        /\ Cardinality(Partial(allocated)) <= 1

C4_Witness ==
    /\ pc = "year_view"
    /\ Cardinality(Partial(allocated)) = 1
    /\ \E k \in DOMAIN allocated :
          allocated[k].taxed_amt = 0 /\ allocated[k].shielded_amt > 0
    /\ \E k \in DOMAIN allocated :
          allocated[k].shielded_amt = 0 /\ allocated[k].taxed_amt > 0

\* C5: monotonic shielding.  With the gross income held fixed, a larger
\* shield never gives a smaller total shielded amount nor a larger total tax.
C5_MonotonicShielding ==
    pc = "year_view" =>
        \A s2 \in Amounts :
            s2 >= total_rrsp_contributions =>
                /\ SumShielded(AllocatedFor(total_gross_income, s2))
                      >= SumShielded(allocated)
                /\ calculate_tax_on_income(TaxableIncome(total_gross_income, s2))
                      <= calculate_tax_on_income(taxable_income)

C5_Witness ==
    /\ pc = "year_view"
    /\ total_rrsp_contributions > 0
    /\ \E s2 \in Amounts :
          /\ s2 > total_rrsp_contributions
          /\ SumShielded(AllocatedFor(total_gross_income, s2)) > SumShielded(allocated)
          /\ calculate_tax_on_income(TaxableIncome(total_gross_income, s2))
                < calculate_tax_on_income(taxable_income)

\* C6: full shielding.  When the shield is at least the gross income, taxable
\* income is 0, every emitted bracket is entirely shielded and the total tax
\* is 0.
C6_FullShielding ==
    (pc = "year_view" /\ total_rrsp_contributions >= total_gross_income) =>
        /\ taxable_income = 0
        /\ \A k \in DOMAIN allocated :
              /\ allocated[k].taxed_amt = 0
              /\ allocated[k].shielded_amt = allocated[k].total_in_bracket
        /\ calculate_tax_on_income(taxable_income) = 0
        /\ SumTaxedTimesRate(allocated) = 0

C6_Witness ==
    /\ pc = "year_view"
    /\ total_rrsp_contributions > total_gross_income
    /\ Len(allocated) >= 2

\* C7: no shielding.  With a shield of 0 every emitted bracket has
\* shieldedAmount = 0 and taxedAmount = totalAmountInBracket, and
\* building_data has no "Tax-Shielded" row.
C7_NoShielding ==
    (pc = "year_view" /\ total_rrsp_contributions = 0) =>
        /\ \A k \in DOMAIN allocated :
              /\ allocated[k].shielded_amt = 0
              /\ allocated[k].taxed_amt = allocated[k].total_in_bracket
        /\ \A r \in DOMAIN building_data :
              building_data[r].Status # "Tax-Shielded"

C7_Witness ==
    /\ pc = "year_view"
    /\ total_rrsp_contributions = 0
    /\ Len(allocated) >= 3
    /\ Len(building_data) = Len(allocated)

\* C8: a negative gross income or a negative shield is rejected with
\* InvalidInput; the engine returns no result for it.
C8_NegativeRejected ==
    (pc # "input" /\ (total_gross_income < 0 \/ total_rrsp_contributions < 0))
        => raised = "InvalidInput"

\* C9: with a gross income of 0 no bracket is emitted, and total tax,
\* marginal rate and estimated refund are all 0.
C9_ZeroGross ==
    (pc = "year_view" /\ total_gross_income = 0) =>
        /\ allocated = << >>
        /\ building_data = << >>
        /\ calculate_tax_on_income(taxable_income) = 0
        /\ marginal_rate = 0
        /\ estimated_refund = 0

C9_Witness ==
    /\ pc = "year_view"
    /\ total_gross_income = 0
    /\ total_rrsp_contributions > 0

\* the bracket whose range [low, high) holds the income
BracketHolding(income) ==
    CHOOSE i \in 1..NBrackets :
        TAX_BRACKETS[i].low <= income /\ income < TAX_BRACKETS[i].high

C11_Original ==
    (pc = "year_view" /\ total_gross_income > 0) =>
        marginal_rate = allocated[Len(allocated)].rate

\* C11 amended: for a gross income > 0 that is not a bracket boundary the
\* reported marginal rate is the rate of the highest bracket that contains
\* income; for a gross income exactly on a boundary it is the rate of the
\* bracket that starts there, the one after the highest bracket with income.
C11_MarginalRateOfReached ==
    (pc = "year_view" /\ total_gross_income > 0) =>
        /\ Len(allocated) >= 1
        /\ \A k \in DOMAIN allocated : allocated[k].total_in_bracket > 0
        /\ IF total_gross_income \in Boundaries
           THEN /\ Len(allocated) < NBrackets
                /\ TAX_BRACKETS[allocated[Len(allocated)].index + 1].low
                      = total_gross_income
                /\ marginal_rate
                      = TAX_BRACKETS[allocated[Len(allocated)].index + 1].rate
           ELSE marginal_rate = allocated[Len(allocated)].rate

C11_Witness ==
    /\ pc = "year_view"
    /\ total_gross_income \in Boundaries
    /\ total_gross_income > 0
    /\ marginal_rate > allocated[Len(allocated)].rate

\* C12: taxable income is max(0, gross - contributions), never negative, at
\* every place that derives or reports it: the Year View value,
\* is_year_optimized, the income taxed inside calculate_tax_refund, and the
\* "Taxable Income" series of the multi-year chart.
C12_TaxableClampedEverywhere ==
    LET clamped == max(0, total_gross_income - total_rrsp_contributions)
    IN  (total_gross_income >= 0 /\ total_rrsp_contributions >= 0) =>
           /\ pc = "year_view" => taxable_income = clamped
           /\ pc # "input" =>
                 year_taxable_income(total_gross_income, total_rrsp_contributions)
                    = clamped
           /\ (pc = "called" /\ result.fn = "calculate_tax_refund") =>
                 tax_with_rrsp_income(total_gross_income, total_rrsp_contributions)
                    = clamped
           /\ pc = "chart" => (result.value = clamped /\ result.value >= 0)

\* the loop as the specification words it: ascending, stop at the first
\* bracket whose totalAmountInBracket is <= 0
RECURSIVE LoopWithBreak(_, _, _, _, _, _)
LoopWithBreak(table, i, gross, taxable, passes, rows) ==
    IF i > Len(table) THEN [allocated |-> passes, building_data |-> rows]
    ELSE LET bracket == table[i]
             total == total_in_bracket(gross, bracket)
         IN  IF total <= 0
             THEN [allocated |-> passes, building_data |-> rows]
             ELSE LET taxed == taxed_amt(taxable, bracket)
                      shielded == shielded_amt(total, taxed)
                  IN  LoopWithBreak(table, i + 1, gross, taxable,
                          Append(passes, [index |-> i,
                                          name |-> bracket.name,
                                          rate |-> bracket.rate,
                                          total_in_bracket |-> total,
                                          taxed_amt |-> taxed,
                                          shielded_amt |-> shielded]),
                          rows \o rows_of(bracket, shielded, taxed))

\* C13: the emitted brackets are a contiguous prefix of the table in
\* ascending order (a bracket is emitted iff its lower bound is below the
\* gross income), so the loop that skips a zero-income bracket and goes on
\* produces the same allocation as the loop that stops at the first one.
C13_PrefixAndBreakEquivalence ==
    pc = "year_view" =>
        /\ \A k \in DOMAIN allocated : allocated[k].index = k
        /\ \A i \in 1..NBrackets :
              (i <= Len(allocated)) <=> (TAX_BRACKETS[i].low < total_gross_income)
        /\ LET stopped == LoopWithBreak(TAX_BRACKETS, 1, total_gross_income,
                                        taxable_income, << >>, << >>)
           IN  /\ allocated = stopped.allocated
               /\ building_data = stopped.building_data

C13_Witness ==
    /\ pc = "year_view"
    /\ Len(allocated) >= 2
    /\ Len(allocated) < NBrackets - 1
    /\ total_rrsp_contributions > 0

\* the table of the worked example: 0-50000 at 10%, 50000-100000 at 20%,
\* 100000 and above at 30%
ExampleTable ==
    << [name |-> "0-50k",    low |-> 0,      high |-> 50000,  rate |-> 1000],
       [name |-> "50k-100k", low |-> 50000,  high |-> 100000, rate |-> 2000],
       [name |-> "100k-",    low |-> 100000, high |-> Inf,    rate |-> 3000] >>

\* what the engine computes over the example table for a gross income and a
\* shield: the per-bracket amounts and the total tax
ExampleRun(gross, rrsp) ==
    LET t == TaxableIncome(gross, rrsp)
        a == building_loop_on(ExampleTable, 1, gross, t, << >>, << >>).allocated
    IN  [taxable |-> t,
         total |-> [k \in DOMAIN a |-> a[k].total_in_bracket],
         taxed |-> [k \in DOMAIN a |-> a[k].taxed_amt],
         shielded |-> [k \in DOMAIN a |-> a[k].shielded_amt],
         totalTax |-> calculate_tax_on_income_on(ExampleTable, t)]

\* C14: on the example table, gross 120000 with shield 0 gives taxed amounts
\* 50000, 50000, 20000, nothing shielded and a total tax of 21000; gross
\* 120000 with shield 30000 gives taxable income 90000, taxed/shielded
\* 50000/0, 40000/10000, 0/20000 and a total tax of 13000.
C14_WorkedExample ==
    (pc = "year_view" /\ total_gross_income = 120000) =>
        /\ total_rrsp_contributions = 0 =>
              ExampleRun(total_gross_income, total_rrsp_contributions)
                 = [taxable |-> 120000,
                    total |-> << 50000, 50000, 20000 >>,
                    taxed |-> << 50000, 50000, 20000 >>,
                    shielded |-> << 0, 0, 0 >>,
                    totalTax |-> 21000 * 10000]
        /\ total_rrsp_contributions = 30000 =>
              ExampleRun(total_gross_income, total_rrsp_contributions)
                 = [taxable |-> 90000,
                    total |-> << 50000, 50000, 20000 >>,
                    taxed |-> << 50000, 40000, 0 >>,
                    shielded |-> << 0, 10000, 20000 >>,
                    totalTax |-> 13000 * 10000]

C14_Witness ==
    /\ pc = "year_view"
    /\ total_gross_income = 120000
    /\ total_rrsp_contributions = 30000
    /\ taxable_income = 90000

\* C15: TAX_BRACKETS is non-empty, starts at 0, is sorted ascending by lower
\* bound, every upper bound is above its lower bound and equal to the next
\* lower bound, rates are non-decreasing and in (0, 1], and exactly one
\* bracket, the last, is unbounded above.
C15_TableInvariants ==
    /\ brackets = TAX_BRACKETS
    /\ NBrackets >= 1
    /\ TAX_BRACKETS[1].low = 0
    /\ \A i \in 1..NBrackets :
          /\ TAX_BRACKETS[i].high > TAX_BRACKETS[i].low
          /\ TAX_BRACKETS[i].rate > 0
          /\ TAX_BRACKETS[i].rate <= 10000
          /\ (TAX_BRACKETS[i].high = Inf) <=> (i = NBrackets)
    /\ \A i \in 1..(NBrackets - 1) :
          /\ TAX_BRACKETS[i].low < TAX_BRACKETS[i + 1].low
          /\ TAX_BRACKETS[i].high = TAX_BRACKETS[i + 1].low
          /\ TAX_BRACKETS[i].rate <= TAX_BRACKETS[i + 1].rate

C15_Witness ==
    /\ pc = "year_view"
    /\ brackets = TAX_BRACKETS
    /\ \A i \in 1..NBrackets : \E k \in DOMAIN allocated : allocated[k].index = i
    /\ taxable_income > TAX_BRACKETS[NBrackets].low

\* tables that break one invariant each: order, contiguity, rates, first
\* lower bound, unbounded bracket not last
MalformedTables ==
    { << [name |-> "B", low |-> 50000, high |-> Inf,   rate |-> 2000],
         [name |-> "A", low |-> 0,     high |-> 50000, rate |-> 1000] >>,
      << [name |-> "A", low |-> 0,     high |-> 50000, rate |-> 1000],
         [name |-> "B", low |-> 60000, high |-> Inf,   rate |-> 2000] >>,
      << [name |-> "A", low |-> 0,     high |-> 50000, rate |-> 2000],
         [name |-> "B", low |-> 50000, high |-> Inf,   rate |-> 1000] >>,
      << [name |-> "A", low |-> 1000,  high |-> 50000, rate |-> 1000],
         [name |-> "B", low |-> 50000, high |-> Inf,   rate |-> 2000] >>,
      << [name |-> "A", low |-> 0,     high |-> Inf,   rate |-> 1000],
         [name |-> "B", low |-> 50000, high |-> 90000, rate |-> 2000] >> }

\* C16: constructing a table that breaks an invariant fails with
\* MalformedBracketTable, so no tax computation runs against such a table.
C16_MalformedTableRejected ==
    pc = "called" =>
        \A rows \in MalformedTables :
            build(rows).raised = "MalformedBracketTable"

\* C20: when the year is not optimized, adding exactly the amount the banner
\* advises (taxable income - 181440) to the RRSP contributions makes the
\* year optimized (taxable income < 181440).
C20_AdviceReachesGreen ==
    (pc = "year_view" /\ ~is_optimized(taxable_income)) =>
        is_optimized(TaxableIncome(total_gross_income,
                                   total_rrsp_contributions
                                      + additional_rrsp_needed(taxable_income)))

\* C18: the tax engine has no side effects: a step that runs
\* calculate_tax_on_income, calculate_tax_refund, get_marginal_rate or the
\* allocation loop leaves the bracket table and the history file as they were.
C18_EngineHasNoSideEffects ==
    [][(pc = "input" /\ pc' \in {"called", "year_view"})
          => (brackets' = brackets /\ history' = history)]_vars

C18_Witness ==
    /\ pc \in {"called", "year_view"}
    /\ Cardinality(DOMAIN history) = NYears
    /\ brackets = TAX_BRACKETS
    /\ \E y \in DOMAIN history : history[y].t4_gross_income > 0

\* C19: under any interleaving of engine calls of several threads that share
\* the bracket table, every call returns what it returns when run alone.
C19_ConcurrentCallsAsAlone ==
    \A t \in Threads :
        calls[t].pc = "done" =>
            calls[t].value =
                IF calls[t].fn = "calculate_tax_on_income"
                THEN calculate_tax_on_income(calls[t].income)
                ELSE get_marginal_rate(calls[t].income)

C19_Witness ==
    \E t, u \in Threads :
        /\ t # u
        /\ calls[t].pc = "done"
        /\ calls[t].fn = "calculate_tax_on_income"
        /\ calls[t].value > 0
        /\ calls[u].pc = "loop"
        /\ calls[u].fn = "calculate_tax_on_income"
        /\ calls[u].i > 2
        /\ calls[u].income # calls[t].income

RECURSIVE SumShieldedTimesRate(_)
SumShieldedTimesRate(passes) ==
    IF passes = << >> THEN 0
    ELSE Head(passes).shielded_amt * Head(passes).rate
         + SumShieldedTimesRate(Tail(passes))

\* C23: whenever the unused-RRSP-room insight is shown, an additional
\* $10,000 of contribution raises the refund by 10000 * marginal_rate.
C23_RefundPerTenThousand ==
    pc = "year_view" =>
        \A rrsp_room \in Amounts :
            unused_room_insight_shown(rrsp_room, total_rrsp_contributions) =>
                calculate_tax_refund(total_gross_income,
                                     total_rrsp_contributions + 10000)
                   - estimated_refund
                = insight_refund_per_10000(marginal_rate)

\* C24: for gross income > 0 and contribution >= 0 the refund is the sum of
\* shieldedAmount * rate over the emitted brackets, which is the tax on the
\* gross income minus the tax on the taxable income; it lies between 0 and
\* the tax on the gross income and does not exceed the contribution.
C24_RefundIsShieldedTax ==
    (pc = "year_view" /\ total_gross_income > 0) =>
        /\ estimated_refund = SumShieldedTimesRate(allocated)
        /\ estimated_refund = calculate_tax_on_income(total_gross_income)
                                 - calculate_tax_on_income(taxable_income)
        /\ estimated_refund >= 0
        /\ estimated_refund <= calculate_tax_on_income(total_gross_income)
        /\ (estimated_refund + 9999) \div 10000 <= total_rrsp_contributions

C24_Witness ==
    /\ pc = "year_view"
    /\ total_gross_income > TAX_BRACKETS[3].low
    /\ total_rrsp_contributions > 0
    /\ Cardinality({k \in DOMAIN allocated : allocated[k].shielded_amt > 0}) >= 2
    /\ estimated_refund > 0
    /\ estimated_refund < calculate_tax_on_income(total_gross_income)

\* C25: the two optimization indicators of the Year View agree: is_optimized
\* holds exactly when penthouse_income is 0, and penthouse_shield_needed
\* always equals penthouse_income.
C25_IndicatorsAgree ==
    pc = "year_view" =>
        /\ is_optimized(taxable_income) <=> (penthouse_income(taxable_income) = 0)
        /\ penthouse_shield_needed(total_gross_income, total_rrsp_contributions)
              = penthouse_income(taxable_income)

\* the part of C25 that holds: the shield needed is the Penthouse income
C25_ShieldNeededIsPenthouseIncome ==
    pc = "year_view" =>
        penthouse_shield_needed(total_gross_income, total_rrsp_contributions)
           = penthouse_income(taxable_income)

\* C21: whenever the Year View, opened on a saved record, reports OPTIMIZED,
\* the Home page tile of that year is green, and whenever it reports
\* IN PROGRESS the tile is not green, legacy records included.
C21_YearViewAgreesWithHome ==
    pc = "year_view" =>
        \A yr \in DOMAIN history :
            is_optimized(taxable_income)
               <=> (grid_tile(history, yr) = "Optimized")

\* the direction of C21 that holds: OPTIMIZED in the Year View implies green
C21_OptimizedImpliesGreen ==
    pc = "year_view" =>
        \A yr \in DOMAIN history :
            is_optimized(taxable_income) => grid_tile(history, yr) = "Optimized"

\* C22: every place that computes the annual RRSP total of a record takes
\* the employer part as base_salary * min(biweekly_pct, employer_match) / 100,
\* so the Global Wealth Summary, the latest-year projection and the Year View
\* give the total calculate_annual_rrsp gives.
C22_SameAnnualRrspEverywhere ==
    /\ pc = "home" =>
          /\ result.total_rrsp_all
                = calculate_annual_rrsp(history[latest_year(history)])
          /\ result.latest_annual_rrsp
                = calculate_annual_rrsp(history[latest_year(history)])
    /\ pc = "year_view" =>
          total_rrsp_contributions
             = calculate_annual_rrsp(history[latest_year(history)])

\* C26: save_year_data(year, data) changes only the entry of str(year):
\* every other year's record is in the file afterwards exactly as before,
\* also when the read fails or the write fails.
C26_SaveKeepsOtherYears ==
    [][(pc = "input" /\ pc' = "saved") =>
          \A y \in Years \ {sessions'[1].year} :
              /\ (y \in DOMAIN history') <=> (y \in DOMAIN history)
              /\ y \in DOMAIN history => history'[y] = history[y]]_vars

\* C27: delete_year_data(year) returns False and leaves the file alone when
\* str(year) is not in the loaded dict; when it is there and the write
\* succeeds it returns True, the year is gone from the file (its tile shows
\* Empty) and every other year's record is unchanged.
C27_DeleteYear ==
    [][(pc = "input" /\ pc' = "reset") =>
          LET c == sessions'[1]
          IN  /\ c.year \notin DOMAIN c.loaded =>
                    (c.ret = FALSE /\ history' = history)
              /\ (c.year \in DOMAIN c.loaded /\ c.write = "ok") =>
                    /\ c.ret = TRUE
                    /\ c.year \notin DOMAIN history'
                    /\ grid_tile(history', c.year) = "Empty"
                    /\ \A y \in Years \ {c.year} :
                          /\ (y \in DOMAIN history') <=> (y \in DOMAIN history)
                          /\ y \in DOMAIN history => history'[y] = history[y]]_vars

C27_Witness ==
    /\ pc = "reset"
    /\ sessions[1].fn = "delete_year_data"
    /\ sessions[1].ret = TRUE
    /\ sessions[1].year \in DOMAIN sessions[1].loaded
    /\ sessions[1].year \notin DOMAIN history
    /\ DOMAIN history # {}
    /\ \A y \in DOMAIN history : history[y] = sessions[1].loaded[y]

\* C28: when two sessions have each completed a save_year_data or
\* delete_year_data call on distinct years, whatever the interleaving of
\* their load and write steps, the file reflects both operations.
C28_NoLostUpdate ==
    \A s \in Threads, t \in Threads :
        (/\ s # t
         /\ sessions[s].pc = "done" /\ sessions[s].ret = TRUE
         /\ sessions[t].pc = "done" /\ sessions[t].ret = TRUE
         /\ sessions[s].year # sessions[t].year
         /\ \A u \in Threads \ {s, t} : sessions[u].pc = "idle")
        => \A u \in {s, t} :
              IF sessions[u].fn = "save_year_data"
              THEN /\ sessions[u].year \in DOMAIN history
                   /\ history[sessions[u].year] = sessions[u].data
              ELSE sessions[u].year \notin DOMAIN history

==========================================================================
